---- MODULE Spec2Model ----
(***************************************************************************)
(* A model of src/src/parseoptions.ts: initializeOptions and parseOptions, *)
(* the normalisation of a partial recurrence-rule option object into the   *)
(* fully populated ParsedOptions plus the precomputed timeset.             *)
(*                                                                         *)
(* parseOptions is a pure function.  The model draws a raw option object   *)
(* in Init and then runs the function one block of the source at a time    *)
(* (pc names the block about to run); the run ends in pc = "done" with the *)
(* returned value in opts / timeset, or in pc = "error" with the thrown    *)
(* error in err.                                                           *)
(***************************************************************************)
EXTENDS Integers, Sequences, FiniteSets, TLC

VARIABLES options, opts, pc, err, millisecondModulo, timeset

vars == <<options, opts, pc, err, millisecondModulo, timeset>>

(***************************************************************************)
(* JavaScript values.  Every value carries its runtime type in field t, so *)
(* that typeof / instanceof / Array.isArray / === null tests of the source *)
(* are tests on t.                                                         *)
(***************************************************************************)
Undef == [t |-> "undef"]
Null == [t |-> "null"]
Num(n) == [t |-> "num", v |-> n]
Arr(s) == [t |-> "arr", v |-> s]
Date(ms) == [t |-> "date", v |-> ms]
\* A Weekday instance; n = 0 stands for a Weekday built without an ordinal
\* (its n is undefined, and !wd.n is true either way).
Wd(w, n) == [t |-> "wd", weekday |-> w, n |-> n]
\* A dateutil.Time instance.
Time(h, m, s, ms) == [hour |-> h, minute |-> m, second |-> s, millisecond |-> ms]

\* The frequency enum, RRule.YEARLY .. RRule.SECONDLY, index into RRule.FREQUENCIES.
YEARLY == 0
MONTHLY == 1
WEEKLY == 2
DAILY == 3
HOURLY == 4
MINUTELY == 5
SECONDLY == 6
FREQUENCIES == <<"YEARLY", "MONTHLY", "WEEKLY", "DAILY", "HOURLY", "MINUTELY", "SECONDLY">>

\* RRule.MO, the Weekday for Monday (weekday code 0, no ordinal).
MO == Wd(0, 0)

\* Object.keys(DEFAULT_OPTIONS): the recognized option names.
defaultKeys ==
  <<"freq", "dtstart", "interval", "wkst", "count", "until", "tzid",
    "bysetpos", "bymonth", "bymonthday", "bynmonthday", "byyearday",
    "byweekno", "byweekday", "bynweekday", "byhour", "byminute", "bysecond",
    "byeaster">>

\* The two values DEFAULT_OPTIONS.freq may hold.  DEFAULT_OPTIONS is imported
\* from ./rrule; nothing in parseoptions.ts fixes its freq entry, so the
\* merge step explores both a null marker and YEARLY.
DefaultFreqValues == {Null, Num(YEARLY)}

\* DEFAULT_OPTIONS[key], with DEFAULT_OPTIONS.freq = freqDefault.
DEFAULT_OPTIONS(key, freqDefault) ==
  CASE key = "freq" -> freqDefault
    [] key = "interval" -> Num(1)
    [] key = "wkst" -> MO
    [] OTHER -> Null

(***************************************************************************)
(* ./helpers                                                               *)
(***************************************************************************)
Range(s) == {s[i] : i \in 1..Len(s)}

\* isPresent(value): value !== null && value !== undefined
isPresent(x) == x.t \notin {"null", "undef"}

\* isNumber(value): typeof value === 'number'
isNumber(x) == x.t = "num"

\* isArray(value): Array.isArray(value)
isArray(x) == x.t = "arr"

\* contains(arr, val): arr.indexOf(val) !== -1
contains(arr, val) == val \in Range(arr)

\* notEmpty(obj): isPresent(obj) && obj.length !== 0.  Only an array has a
\* length; for a number obj.length is undefined, which is !== 0.
notEmpty(x) == isPresent(x) /\ (isArray(x) => Len(x.v) # 0)

\* JavaScript truthiness, Boolean(x) and !x, of the values modelled here:
\* undefined, null and the number 0 are falsy, every object (an empty array
\* included) is truthy.
Boolean(x) == /\ x.t \notin {"null", "undef"}
              /\ (x.t = "num" => x.v # 0)

\* a % b of JavaScript for b > 0: the remainder takes the sign of a.
JsRem(a, b) == IF a >= 0 THEN a % b ELSE -((-a) % b)

(***************************************************************************)
(* Date: the UTC fields of an instant given as epoch milliseconds.         *)
(***************************************************************************)
\* Date.prototype.getTime()
getTime(d) == d.v

\* Days since 1970-01-01 (floor) and seconds into the UTC day.
EpochDay(d) == d.v \div 86400000
SecondOfDay(d) == (d.v \div 1000) % 86400

getUTCMilliseconds(d) == d.v % 1000
getUTCSeconds(d) == SecondOfDay(d) % 60
getUTCMinutes(d) == (SecondOfDay(d) \div 60) % 60
getUTCHours(d) == SecondOfDay(d) \div 3600

\* Date.prototype.getUTCDay(): 0 = Sunday; 1970-01-01 was a Thursday.
getUTCDay(d) == (EpochDay(d) + 4) % 7

\* The proleptic Gregorian calendar date of a day number: <<year, month, day>>
\* with month 1..12.
CivilFromDays(z0) ==
  LET z == z0 + 719468
      era == z \div 146097
      doe == z - era * 146097
      yoe == (doe - doe \div 1460 + doe \div 36524 - doe \div 146096) \div 365
      doy == doe - (365 * yoe + yoe \div 4 - yoe \div 100)
      mp == (5 * doy + 2) \div 153
      day == doy - (153 * mp + 2) \div 5 + 1
      month == IF mp < 10 THEN mp + 3 ELSE mp - 9
      year == yoe + era * 400 + (IF month <= 2 THEN 1 ELSE 0)
  IN <<year, month, day>>

\* Date.prototype.getUTCMonth(): 0 = January.
getUTCMonth(d) == CivilFromDays(EpochDay(d))[2] - 1

\* Date.prototype.getUTCDate(): day of the month, 1..31.
getUTCDate(d) == CivilFromDays(EpochDay(d))[3]

\* dateutil.getWeekday(date): the weekday code, 0 = Monday .. 6 = Sunday.
getWeekday(d) == <<6, 0, 1, 2, 3, 4, 5>>[getUTCDay(d) + 1]

\* The instants at which the call may be made, epoch milliseconds.
NowValues == {5000, 1234567890, -1}

(***************************************************************************)
(* Objects.  An option object is a function from the names of its own      *)
(* properties to their values; Object.keys lists the names in KeyOrder.    *)
(***************************************************************************)
KeyOrder == defaultKeys \o <<"foo", "bar">>

\* Object.keys(o)
ObjectKeys(o) == SelectSeq(KeyOrder, LAMBDA k : k \in DOMAIN o)

\* o[key]: undefined when o has no such property.
Get(o, key) == IF key \in DOMAIN o THEN o[key] ELSE Undef

\* o[key] = value
Put(o, key, value) == [k \in DOMAIN o \cup {key} |-> IF k = key THEN value ELSE o[k]]

EmptyObject == [k \in {} |-> Undef]

NoError == [kind |-> "none", detail |-> <<>>]

(***************************************************************************)
(* initializeOptions, lines 7-23                                           *)
(***************************************************************************)
\* Mutation of invalidKeys: the scan stops at the first unrecognized key.
firstInvalidKey(o) ==
  LET all == SelectSeq(ObjectKeys(o), LAMBDA key : ~contains(defaultKeys, key))
  IN IF all = <<>> THEN all ELSE <<Head(all)>>

\* The keys pushed to `invalid` by the forEach of lines 13-16.
invalidKeys(o) == SelectSeq(ObjectKeys(o), LAMBDA key : ~contains(defaultKeys, key))

\* The shallow copy built by the same forEach.
initializedOptions(o) == [key \in DOMAIN o |-> o[key]]

initializeOptions ==
  /\ pc = "initializeOptions"
  /\ IF Len(invalidKeys(options)) # 0
       THEN /\ err' = [kind |-> "InvalidOptionKey", detail |-> invalidKeys(options)]
            /\ pc' = "error"
            /\ UNCHANGED opts
       ELSE /\ opts' = initializedOptions(options)
            /\ pc' = "mergeDefaults"
            /\ UNCHANGED err
  /\ UNCHANGED <<options, millisecondModulo, timeset>>

(***************************************************************************)
(* parseOptions, lines 29-32: merge in default options                     *)
(***************************************************************************)
mergeDefaultsInto(o, keys, freqDefault) ==
  [key \in DOMAIN o \cup Range(defaultKeys) |->
     IF ~contains(keys, key) THEN DEFAULT_OPTIONS(key, freqDefault) ELSE o[key]]

mergeDefaults ==
  /\ pc = "mergeDefaults"
  /\ \E freqDefault \in DefaultFreqValues :
       opts' = mergeDefaultsInto(opts, ObjectKeys(options), freqDefault)
  /\ pc' = "frequency"
  /\ UNCHANGED <<options, err, millisecondModulo, timeset>>

(***************************************************************************)
(* parseOptions, lines 34-38: the Easter override and the frequency check  *)
(***************************************************************************)
easterOverride(o) == IF isPresent(o.byeaster) THEN Put(o, "freq", Num(YEARLY)) ELSE o

\* isPresent(opts.freq) && RRule.FREQUENCIES[opts.freq]
validFrequency(freq) ==
  /\ isPresent(freq)
  /\ isNumber(freq)
  /\ freq.v + 1 \in DOMAIN FREQUENCIES

frequency ==
  /\ pc = "frequency"
  /\ opts' = easterOverride(opts)
  /\ IF ~validFrequency(opts'.freq)
       THEN /\ err' = [kind |-> "InvalidFrequency", detail |-> <<opts'.freq>>]
            /\ pc' = "error"
       ELSE /\ pc' = "dtstart"
            /\ UNCHANGED err
  /\ UNCHANGED <<options, millisecondModulo, timeset>>

(***************************************************************************)
(* parseOptions, lines 40-49: dtstart, millisecondModulo, wkst             *)
(***************************************************************************)
\* new Date(new Date().setMilliseconds(0)): the current instant, cut to a
\* whole second.
setMilliseconds0(now) == Date(now.v - getUTCMilliseconds(now))

defaultDtstart(o, now) ==
  IF ~Boolean(o.dtstart) THEN Put(o, "dtstart", setMilliseconds0(now)) ELSE o

resolveWkst(o) ==
  IF ~isPresent(o.wkst) THEN Put(o, "wkst", Num(MO.weekday))
  ELSE IF isNumber(o.wkst) THEN o
  ELSE Put(o, "wkst", Num(o.wkst.weekday))

\* opts.dtstart.getTime() % 1000
millisecondModuloOf(dtstart) == JsRem(getTime(dtstart), 1000)

dtstart ==
  /\ pc = "dtstart"
  /\ \E now \in {Date(ms) : ms \in NowValues} :
       LET o == defaultDtstart(opts, now)
       IN /\ millisecondModulo' = millisecondModuloOf(o.dtstart)
          /\ opts' = resolveWkst(o)
  /\ pc' = "bysetpos"
  /\ UNCHANGED <<options, err, timeset>>

(***************************************************************************)
(* parseOptions, lines 51-62: bysetpos                                     *)
(***************************************************************************)
\* if (isNumber(opts.bysetpos)) opts.bysetpos = [opts.bysetpos]
bysetposList(o) ==
  IF isPresent(o.bysetpos) /\ isNumber(o.bysetpos)
    THEN Put(o, "bysetpos", Arr(<<o.bysetpos.v>>))
    ELSE o

\* Mutation of invalidSetpos: the range ends are excluded.
invalidSetposExclusive(v) == v = 0 \/ ~(v > -366 /\ v < 366)

\* v === 0 || !(v >= -366 && v <= 366)
invalidSetpos(v) == v = 0 \/ ~(v >= -366 /\ v <= 366)

bysetpos ==
  /\ pc = "bysetpos"
  /\ opts' = bysetposList(opts)
  /\ IF /\ isPresent(opts'.bysetpos)
        /\ \E i \in 1..Len(opts'.bysetpos.v) : invalidSetpos(opts'.bysetpos.v[i])
       THEN /\ err' = [kind |-> "InvalidSetPosition", detail |-> <<>>]
            /\ pc' = "error"
       ELSE /\ pc' = "implicit"
            /\ UNCHANGED err
  /\ UNCHANGED <<options, millisecondModulo, timeset>>

(***************************************************************************)
(* parseOptions, lines 64-87: constraints implied by dtstart               *)
(***************************************************************************)
\* The condition of lines 64-74, without its negation.
hasPositionConstraint(o) ==
  \/ Boolean(o.byweekno)
  \/ notEmpty(o.byweekno)
  \/ notEmpty(o.byyearday)
  \/ Boolean(o.bymonthday)
  \/ notEmpty(o.bymonthday)
  \/ o.byweekday # Null
  \/ o.byeaster # Null

\* Mutation of deriveFromDtstart: the YEARLY case sets the month only and
\* the WEEKLY case is missing.
deriveMonthOnly(o) ==
  CASE o.freq.v = YEARLY ->
         IF ~Boolean(o.bymonth)
           THEN Put(o, "bymonth", Num(getUTCMonth(o.dtstart) + 1))
           ELSE o
    [] o.freq.v = MONTHLY -> Put(o, "bymonthday", Num(getUTCDate(o.dtstart)))
    [] OTHER -> o

\* The switch of lines 75-86.
deriveFromDtstart(o) ==
  CASE o.freq.v = YEARLY ->
         Put(IF ~Boolean(o.bymonth)
               THEN Put(o, "bymonth", Num(getUTCMonth(o.dtstart) + 1))
               ELSE o,
             "bymonthday", Num(getUTCDate(o.dtstart)))
    [] o.freq.v = MONTHLY -> Put(o, "bymonthday", Num(getUTCDate(o.dtstart)))
    [] o.freq.v = WEEKLY -> Put(o, "byweekday", Arr(<<Num(getWeekday(o.dtstart))>>))
    [] OTHER -> o

implicit ==
  /\ pc = "implicit"
  /\ opts' = IF ~hasPositionConstraint(opts) THEN deriveFromDtstart(opts) ELSE opts
  /\ pc' = "normalize"
  /\ UNCHANGED <<options, err, millisecondModulo, timeset>>

(***************************************************************************)
(* parseOptions, lines 89-187: the BY* fields in list form                 *)
(***************************************************************************)
\* if (isPresent(opts[key]) && !isArray(opts[key])) opts[key] = [opts[key]]
\* (bymonth, lines 90-92, and byweekno, lines 125-127)
toList(o, key) ==
  IF isPresent(o[key]) /\ ~isArray(o[key]) THEN Put(o, key, Arr(<<o[key].v>>)) ELSE o

\* byyearday, lines 94-96
byyearday(o) ==
  IF isPresent(o.byyearday) /\ ~isArray(o.byyearday) /\ isNumber(o.byyearday)
    THEN Put(o, "byyearday", Arr(<<o.byyearday.v>>))
    ELSE o

\* Mutation of positiveMonthdays: 0 is kept as a positive month-day.
nonNegativeMonthdays(s) == SelectSeq(s, LAMBDA v : v >= 0)

\* The two pushes of the loop of lines 106-113.
positiveMonthdays(s) == SelectSeq(s, LAMBDA v : v > 0)
negativeMonthdays(s) == SelectSeq(s, LAMBDA v : ~(v > 0) /\ v < 0)

\* bymonthday / bynmonthday, lines 99-122
bymonthday(o) ==
  IF ~isPresent(o.bymonthday)
    THEN Put(Put(o, "bymonthday", Arr(<<>>)), "bynmonthday", Arr(<<>>))
  ELSE IF isArray(o.bymonthday)
    THEN Put(Put(o, "bymonthday", Arr(positiveMonthdays(o.bymonthday.v))),
             "bynmonthday", Arr(negativeMonthdays(o.bymonthday.v)))
  ELSE IF o.bymonthday.v < 0
    THEN Put(Put(o, "bynmonthday", Arr(<<o.bymonthday.v>>)), "bymonthday", Arr(<<>>))
  ELSE Put(Put(o, "bynmonthday", Arr(<<>>)), "bymonthday", Arr(<<o.bymonthday.v>>))

\* Mutation of plainWeekday: MONTHLY counts as too fine for an ordinal.
plainWeekdayFromMonthly(wd, freq) == wd.n = 0 \/ freq >= MONTHLY

\* !wd.n || opts.freq > RRule.MONTHLY (lines 136 and 156)
plainWeekday(wd, freq) == wd.n = 0 \/ freq > MONTHLY

\* The elements the loop of lines 147-161 pushes to byweekday, and those it
\* pushes to bynweekday.
pushedToByweekday(s, freq) ==
  LET plain == SelectSeq(s, LAMBDA wday : isNumber(wday) \/ plainWeekday(wday, freq))
  IN [i \in 1..Len(plain) |->
        IF isNumber(plain[i]) THEN plain[i].v ELSE plain[i].weekday]

pushedToBynweekday(s, freq) ==
  LET nth == SelectSeq(s, LAMBDA wday : ~isNumber(wday) /\ ~plainWeekday(wday, freq))
  IN [i \in 1..Len(nth) |-> <<nth[i].weekday, nth[i].n>>]

\* notEmpty(list) ? list : null (lines 162-163)
listOrNull(s) == IF notEmpty(Arr(s)) THEN Arr(s) ELSE Null

\* byweekday / bynweekday, lines 130-164
byweekday(o) ==
  IF ~isPresent(o.byweekday)
    THEN Put(o, "bynweekday", Null)
  ELSE IF isNumber(o.byweekday)
    THEN Put(Put(o, "byweekday", Arr(<<o.byweekday.v>>)), "bynweekday", Null)
  ELSE IF o.byweekday.t = "wd"
    THEN IF plainWeekday(o.byweekday, o.freq.v)
           THEN Put(Put(o, "byweekday", Arr(<<o.byweekday.weekday>>)), "bynweekday", Null)
           ELSE Put(Put(o, "bynweekday", Arr(<<<<o.byweekday.weekday, o.byweekday.n>>>>)),
                    "byweekday", Null)
  ELSE Put(Put(o, "byweekday", listOrNull(pushedToByweekday(o.byweekday.v, o.freq.v))),
           "bynweekday", listOrNull(pushedToBynweekday(o.byweekday.v, o.freq.v)))

\* byhour, byminute, bysecond (lines 167-187): `level` is the frequency at
\* which the field stops being fixed, `field` the dtstart field it defaults to.
byTime(o, key, level, field) ==
  IF ~isPresent(o[key])
    THEN Put(o, key, IF o.freq.v < level THEN Arr(<<field>>) ELSE Null)
  ELSE IF isNumber(o[key])
    THEN Put(o, key, Arr(<<o[key].v>>))
  ELSE o

normalizeFields(o) ==
  LET o1 == toList(o, "bymonth")
      o2 == byyearday(o1)
      o3 == bymonthday(o2)
      o4 == toList(o3, "byweekno")
      o5 == byweekday(o4)
      o6 == byTime(o5, "byhour", HOURLY, getUTCHours(o.dtstart))
      o7 == byTime(o6, "byminute", MINUTELY, getUTCMinutes(o.dtstart))
  IN byTime(o7, "bysecond", SECONDLY, getUTCSeconds(o.dtstart))

normalize ==
  /\ pc = "normalize"
  /\ opts' = normalizeFields(opts)
  /\ pc' = "timeset"
  /\ UNCHANGED <<options, err, millisecondModulo, timeset>>

(***************************************************************************)
(* parseOptions, lines 189-212: the timeset                                *)
(***************************************************************************)
\* The order of dateutil.sort: by hour, then minute, then second, then
\* millisecond.
timeBefore(a, b) ==
  \/ a.hour < b.hour
  \/ a.hour = b.hour /\ a.minute < b.minute
  \/ a.hour = b.hour /\ a.minute = b.minute /\ a.second < b.second
  \/ /\ a.hour = b.hour /\ a.minute = b.minute /\ a.second = b.second
     /\ a.millisecond < b.millisecond

\* `s` sorted, with `x` put after every element that is not after it.
RECURSIVE insertSorted(_, _)
insertSorted(x, s) ==
  IF s = <<>> THEN <<x>>
  ELSE IF timeBefore(x, Head(s)) THEN <<x>> \o s
  ELSE <<Head(s)>> \o insertSorted(x, Tail(s))

\* dateutil.sort(timeset)
RECURSIVE sort(_)
sort(s) == IF s = <<>> THEN <<>> ELSE insertSorted(s[Len(s)], sort(SubSeq(s, 1, Len(s) - 1)))

\* The pushes of the three nested loops of lines 194-208, in order.
timesOf(hours, minutes, seconds, ms) ==
  LET M == Len(minutes)
      S == Len(seconds)
  IN [i \in 1..(Len(hours) * M * S) |->
        Time(hours[((i - 1) \div (M * S)) + 1],
             minutes[(((i - 1) \div S) % M) + 1],
             seconds[((i - 1) % S) + 1],
             ms)]

buildTimeset(o, ms) ==
  IF o.freq.v >= HOURLY
    THEN Null
    ELSE Arr(sort(timesOf(o.byhour.v, o.byminute.v, o.bysecond.v, ms)))

buildTimesetStep ==
  /\ pc = "timeset"
  /\ timeset' = buildTimeset(opts, millisecondModulo)
  /\ pc' = "done"
  /\ UNCHANGED <<options, opts, err, millisecondModulo>>

(***************************************************************************)
(* The raw option objects explored.                                        *)
(***************************************************************************)
\* Longest list given for bysetpos, byweekday and byhour.
MaxLen == 2
\* Longest list given for bymonthday.
MaxMonthdays == 3

\* Marks a property the raw object does not have.
Absent == [t |-> "absent"]

\* The object with the properties of record r that are not Absent.
Obj(r) == [k \in {key \in DOMAIN r : r[key] # Absent} |-> r[k]]

\* All lists over S of length at most n.
Lists(S, n) == UNION {[1..k -> S] : k \in 0..n}

FrequencyInputs ==
  {Absent, Undef, Null, Num(-1), Num(YEARLY), Num(DAILY), Num(SECONDLY), Num(7)}

Frequencies == {Num(f) : f \in YEARLY..SECONDLY}

\* 1970-01-01T00:00:00.000 (a Thursday), 1970-01-15T06:56:07.890,
\* 1969-12-31T23:59:59.999 and 1969-12-21T23:59:59.500.
DtstartInputs == {Date(0), Date(1234567890), Date(-1), Date(-864000500)}

SetposInputs ==
  {Absent, Null}
    \cup {Num(v) : v \in {-367, -366, -1, 0, 1, 366, 367}}
    \cup {Arr(s) : s \in Lists({-366, 0, 367}, MaxLen)}

WeekdayElements == {Num(1), Wd(2, 0), Wd(5, 2), Wd(4, -1)}

WeekdayInputs == WeekdayElements \cup {Arr(s) : s \in Lists(WeekdayElements, MaxLen)}

MonthdayInputs ==
  {Num(-5), Num(0), Num(5)} \cup {Arr(s) : s \in Lists({-5, 0, 5}, MaxMonthdays)}

\* Unrecognized keys, frequency, byeaster, bysetpos, a key without a value.
KeyCases ==
  {Obj([foo |-> x, bar |-> y, freq |-> f, byeaster |-> e, bysetpos |-> p, count |-> c]) :
     x \in {Absent, Num(1)}, y \in {Absent, Undef}, f \in FrequencyInputs,
     e \in {Absent, Undef, Null, Num(0), Num(1)}, p \in SetposInputs,
     c \in {Absent, Undef}}

\* No position constraint at all: every frequency, dtstart, bymonth, wkst.
DtstartCases ==
  {Obj([freq |-> f, dtstart |-> d, bymonth |-> m, wkst |-> w, byweekno |-> a,
        byyearday |-> a, bymonthday |-> a, byweekday |-> a, byeaster |-> a]) :
     f \in Frequencies, d \in {Absent} \cup DtstartInputs,
     m \in {Absent, Null, Num(3), Arr(<<2, 3>>)}, w \in {Absent, Num(6), Wd(6, 1)},
     a \in {Absent, Null}}

\* Position constraints absent, without a value, zero, empty and non-empty.
PositionCases ==
  {Obj([freq |-> f, dtstart |-> Date(1234567890), byweekno |-> wn, byyearday |-> yd,
        bymonthday |-> md, byweekday |-> wd, byeaster |-> e]) :
     f \in {Num(YEARLY), Num(MONTHLY), Num(WEEKLY), Num(DAILY)},
     wn \in {Absent, Num(0), Arr(<<>>), Arr(<<5>>)},
     yd \in {Absent, Num(0), Arr(<<>>), Arr(<<5>>)},
     md \in {Absent, Undef, Num(0), Arr(<<>>), Num(5)},
     wd \in {Absent, Undef, Num(0), Arr(<<>>)},
     e \in {Absent, Num(0)}}

WeekdayCases ==
  {Obj([freq |-> f, dtstart |-> Date(0), byweekday |-> wd, byeaster |-> e]) :
     f \in Frequencies, wd \in WeekdayInputs, e \in {Absent, Num(2)}}

MonthdayCases ==
  {Obj([freq |-> f, dtstart |-> Date(0), bymonthday |-> md]) :
     f \in {Num(YEARLY), Num(DAILY)}, md \in MonthdayInputs}

TimeCases ==
  {Obj([freq |-> f, dtstart |-> d, byhour |-> h, byminute |-> m, bysecond |-> sec]) :
     f \in Frequencies, d \in {Absent, Date(1234567890), Date(-1)},
     h \in {Absent, Null, Num(9)} \cup {Arr(s) : s \in Lists({9, 10}, MaxLen)},
     m \in {Absent, Num(30), Arr(<<30, 0>>), Arr(<<>>)},
     sec \in {Absent, Num(5), Arr(<<0>>), Arr(<<7, 7>>)}}

RawOptions ==
  KeyCases \cup DtstartCases \cup PositionCases \cup WeekdayCases
    \cup MonthdayCases \cup TimeCases

(***************************************************************************)
(* The specification: one call of parseOptions(options).                   *)
(***************************************************************************)
Init ==
  /\ options \in RawOptions
  /\ opts = EmptyObject
  /\ pc = "initializeOptions"
  /\ err = NoError
  /\ millisecondModulo = 0
  /\ timeset = Undef

Next ==
  \/ initializeOptions
  \/ mergeDefaults
  \/ frequency
  \/ dtstart
  \/ bysetpos
  \/ implicit
  \/ normalize
  \/ buildTimesetStep

Spec == Init /\ [][Next]_vars

(***************************************************************************)
(* Properties                                                              *)
(***************************************************************************)
\* The raw value of a key; undefined when the key is not in the input.
Raw(key) == Get(options, key)

Returned == pc = "done"
Failed(kind) == pc = "error" /\ err.kind = kind
Terminated == pc \in {"done", "error"}

UnrecognizedKeys == DOMAIN options \ Range(defaultKeys)

\* A constraint given as a scalar or a list, as the list of its elements.
Elements(x) == IF isArray(x) THEN x.v ELSE <<x>>
Numbers(x) == IF isArray(x) THEN x.v ELSE <<x.v>>

\* C1: an input with at least one unrecognized key fails with the
\* InvalidOptionKey error and no other, whatever its other fields hold, and
\* the error names every unrecognized key of the input.
C1_UnrecognizedKeysRejected ==
  UnrecognizedKeys # {} =>
    /\ pc \in {"initializeOptions", "error"}
    /\ pc = "error" =>
         /\ err.kind = "InvalidOptionKey"
         /\ \A key \in UnrecognizedKeys : key \in Range(err.detail)

\* Two unrecognized keys together with an invalid frequency and an invalid
\* set-position: the call has failed naming both keys.
C1_Witness ==
  /\ Failed("InvalidOptionKey")
  /\ UnrecognizedKeys = {"foo", "bar"}
  /\ Range(err.detail) = {"foo", "bar"}
  /\ Raw("freq") = Num(7)
  /\ Raw("bysetpos") = Num(0)

\* C2: with recognized keys only and a valid resolved frequency, a call
\* given a set-position constraint (a scalar counting as a one-element list)
\* fails with InvalidSetPosition if and only if some element is 0 or outside
\* -366..366, and returns options if and only if none is.
C2_SetPositionRange ==
  (/\ Terminated
   /\ UnrecognizedKeys = {}
   /\ ~Failed("InvalidFrequency")
   /\ isPresent(Raw("bysetpos"))) =>
    LET list == Numbers(Raw("bysetpos"))
        bad == \E i \in 1..Len(list) : list[i] = 0 \/ list[i] < -366 \/ list[i] > 366
    IN /\ Failed("InvalidSetPosition") <=> bad
       /\ Returned <=> ~bad

\* A list whose first element is legal and whose second is not has failed
\* the whole call.
C2_Witness ==
  /\ Failed("InvalidSetPosition")
  /\ Raw("bysetpos") = Arr(<<-366, 367>>)
  /\ UnrecognizedKeys = {}

\* The month constraint as given, in list form (null when not given).
ListForm(x) ==
  IF ~isPresent(x) THEN Null ELSE IF isNumber(x) THEN Arr(<<x.v>>) ELSE x

PositionKeys == {"byweekno", "byyearday", "bymonthday", "byweekday", "byeaster"}

\* C5: with no week-number, year-day, month-day, weekday or Easter
\* constraint (each key missing or null) and start instant T, YEARLY yields
\* the month of T unless a month constraint was given (which is kept, in list
\* form) and the day of T as the only positive month-day; MONTHLY yields the
\* day of T and leaves the month constraint; WEEKLY yields the weekday of T
\* as the only plain weekday and no ordinal weekday; the finer frequencies
\* derive nothing.
C5_DerivedFromDtstart ==
  (/\ Returned
   /\ \A key \in PositionKeys : key \notin DOMAIN options \/ options[key] = Null) =>
    LET T == opts.dtstart
        day == Arr(<<getUTCDate(T)>>)
    IN /\ "dtstart" \in DOMAIN options => T = options.dtstart
       /\ opts.freq.v = YEARLY =>
            /\ opts.bymonth = IF isPresent(Raw("bymonth"))
                                THEN ListForm(Raw("bymonth"))
                                ELSE Arr(<<getUTCMonth(T) + 1>>)
            /\ opts.bymonthday = day
            /\ opts.bynmonthday = Arr(<<>>)
       /\ opts.freq.v = MONTHLY =>
            /\ opts.bymonth = ListForm(Raw("bymonth"))
            /\ opts.bymonthday = day
            /\ opts.bynmonthday = Arr(<<>>)
       /\ opts.freq.v = WEEKLY =>
            /\ opts.byweekday = Arr(<<getWeekday(T)>>)
            /\ opts.bynweekday = Null
       /\ opts.freq.v >= DAILY =>
            /\ opts.bymonth = ListForm(Raw("bymonth"))
            /\ opts.bymonthday = Arr(<<>>)
            /\ opts.bynmonthday = Arr(<<>>)
            /\ opts.byweekday = Null
            /\ opts.bynweekday = Null

\* YEARLY from 1970-01-15T06:56:07.890 with nothing else given: January,
\* the 15th.
C5_Witness ==
  /\ Returned
  /\ DOMAIN options = {"freq", "dtstart"}
  /\ options.freq = Num(YEARLY)
  /\ options.dtstart = Date(1234567890)
  /\ opts.bymonth = Arr(<<1>>)
  /\ opts.bymonthday = Arr(<<15>>)
  /\ opts.bynmonthday = Arr(<<>>)

\* C6: a given month-day constraint is split into two lists with no common
\* element: of a list, the elements > 0 in input order and the elements < 0
\* in input order, every 0 dropped; of a scalar v, [] and [v] when v < 0,
\* [v] and [] when v >= 0.
C6_MonthdaySplit ==
  (Returned /\ isPresent(Raw("bymonthday"))) =>
    LET given == Raw("bymonthday")
        pos == opts.bymonthday
        neg == opts.bynmonthday
    IN /\ isArray(pos) /\ isArray(neg)
       /\ Range(pos.v) \cap Range(neg.v) = {}
       /\ isArray(given) =>
            /\ pos.v = SelectSeq(given.v, LAMBDA v : v > 0)
            /\ neg.v = SelectSeq(given.v, LAMBDA v : v < 0)
            /\ 0 \notin Range(pos.v) \cup Range(neg.v)
       /\ isNumber(given) /\ given.v < 0 => pos.v = <<>> /\ neg.v = <<given.v>>
       /\ isNumber(given) /\ given.v >= 0 => pos.v = <<given.v>> /\ neg.v = <<>>

\* [5, -5, 0] has been split into [5] and [-5].
C6_Witness ==
  /\ Returned
  /\ Raw("bymonthday") = Arr(<<5, -5, 0>>)
  /\ opts.bymonthday = Arr(<<5>>)
  /\ opts.bynmonthday = Arr(<<-5>>)

\* C7: every element of a given weekday constraint (a single value counting
\* as a one-element list) lands in exactly one bucket, in input order: a bare
\* code, a token without ordinal, and any token when the frequency is WEEKLY
\* or finer, in the plain bucket as the bare code; a token with ordinal n
\* under YEARLY or MONTHLY in the ordinal bucket as <<code, n>>.  A bucket
\* that receives nothing is null.  The frequency is the one after the Easter
\* override.
C7_WeekdayBuckets ==
  (Returned /\ isPresent(Raw("byweekday"))) =>
    LET freq == IF isPresent(Raw("byeaster")) THEN YEARLY
                ELSE IF "freq" \in DOMAIN options THEN options.freq.v
                ELSE opts.freq.v
        given == Elements(Raw("byweekday"))
        ordinal(wday) == wday.t = "wd" /\ wday.n # 0 /\ freq \in {YEARLY, MONTHLY}
        code(wday) == IF wday.t = "wd" THEN wday.weekday ELSE wday.v
        toPlain == SelectSeq(given, LAMBDA wday : ~ordinal(wday))
        toOrdinal == SelectSeq(given, ordinal)
        plain == [i \in 1..Len(toPlain) |-> code(toPlain[i])]
        pairs == [i \in 1..Len(toOrdinal) |-> <<toOrdinal[i].weekday, toOrdinal[i].n>>]
    IN /\ opts.byweekday = IF plain = <<>> THEN Null ELSE Arr(plain)
       /\ opts.bynweekday = IF pairs = <<>> THEN Null ELSE Arr(pairs)
       /\ Len(plain) + Len(pairs) = Len(given)

\* Under MONTHLY, [2nd Saturday, Tuesday] has filled both buckets.
C7_Witness ==
  /\ Returned
  /\ Raw("freq") = Num(MONTHLY)
  /\ Raw("byweekday") = Arr(<<Wd(5, 2), Num(1)>>)
  /\ opts.byweekday = Arr(<<1>>)
  /\ opts.bynweekday = Arr(<<<<5, 2>>>>)

\* The inputs whose frequency parseoptions.ts alone decides: the freq key is
\* given, or byeaster overrides it.  (Without either the frequency is
\* DEFAULT_OPTIONS.freq.)
FrequencyGiven == "freq" \in DOMAIN options \/ isPresent(Raw("byeaster"))

\* C4: whenever the call returns, every recognized field of the returned
\* options holds a value or null, never undefined, whichever recognized keys
\* the input has, keys given without a value included.
C4_EveryFieldDefined ==
  (Returned /\ FrequencyGiven) =>
    \A key \in Range(defaultKeys) : key \in DOMAIN opts /\ opts[key] # Undef

\* C8: whenever the call returns, the timeset is null exactly when the
\* frequency is HOURLY, MINUTELY or SECONDLY, and a timeset that is produced
\* is non-empty and ascending by (hour, minute, second, millisecond), for
\* hour, minute and second constraints that are missing, scalars or lists of
\* any length.
C8_TimesetSortedNonEmpty ==
  (Returned /\ FrequencyGiven) =>
    /\ timeset = Null <=> opts.freq.v \in {HOURLY, MINUTELY, SECONDLY}
    /\ timeset # Null =>
         /\ isArray(timeset)
         /\ Len(timeset.v) > 0
         /\ \A i, j \in 1..Len(timeset.v) :
              i < j => ~timeBefore(timeset.v[j], timeset.v[i])

\* C9: a produced timeset holds exactly one entry for every combination of
\* the hour, minute and second lists (a missing list being the one field of
\* the start instant), and the millisecond of every entry is the
\* milliseconds field of the start instant, in 0..999, for start instants
\* before the epoch too.
C9_TimesetProductAndMilliseconds ==
  (Returned /\ FrequencyGiven /\ timeset # Null) =>
    LET T == opts.dtstart
        hours == opts.byhour.v
        minutes == opts.byminute.v
        seconds == opts.bysecond.v
    IN /\ ~isPresent(Raw("byhour")) => hours = <<getUTCHours(T)>>
       /\ ~isPresent(Raw("byminute")) => minutes = <<getUTCMinutes(T)>>
       /\ ~isPresent(Raw("bysecond")) => seconds = <<getUTCSeconds(T)>>
       /\ Len(timeset.v) = Len(hours) * Len(minutes) * Len(seconds)
       /\ \A h \in Range(hours), m \in Range(minutes), sec \in Range(seconds) :
            \E i \in 1..Len(timeset.v) :
              /\ timeset.v[i].hour = h
              /\ timeset.v[i].minute = m
              /\ timeset.v[i].second = sec
       /\ \A i \in 1..Len(timeset.v) :
            /\ timeset.v[i].millisecond = getUTCMilliseconds(T)
            /\ timeset.v[i].millisecond \in 0..999

\* Whether a returned value shows the constraint derived from dtstart.
DerivedApplied ==
  IF opts.freq.v = WEEKLY
    THEN opts.byweekday = Arr(<<getWeekday(opts.dtstart)>>)
    ELSE opts.bymonthday = Arr(<<getUTCDate(opts.dtstart)>>)

\* C10: the constraint is derived from the start instant exactly when none
\* of the week-number, year-day, month-day, weekday and Easter constraints
\* is given, a missing key, null and the empty list all counting as not
\* given, and any other value, the scalar 0 included, as given.  (Stated for
\* the inputs that give none of these keys the value undefined.)
C10_DerivedExactlyWhenNothingGiven ==
  (/\ Returned
   /\ FrequencyGiven
   /\ opts.freq.v \in {YEARLY, MONTHLY, WEEKLY}
   /\ \A key \in PositionKeys \cap DOMAIN options : options[key] # Undef) =>
    (DerivedApplied <=>
       \A key \in PositionKeys : ~isPresent(Raw(key)) \/ Raw(key) = Arr(<<>>))

====
